---------------------------- MODULE Spec2Model ----------------------------
(***************************************************************************)
(* rusty-orm: schema derivation (rusty_orm_macros), the four statement     *)
(* builders and the eager loader (query_builder.rs, eager_loading.rs) and  *)
(* the migration generator (migration.rs).                                 *)
(*                                                                         *)
(* Rust Strings are TLA+ strings (TLC evaluates Len, \o, SubSeq, Head and  *)
(* Tail on them), so rendered SQL is compared character by character.      *)
(* Vec<X> is a sequence, Option<X> is <<>> (None) or <<x>> (Some(x)).      *)
(***************************************************************************)
EXTENDS Integers, Sequences, FiniteSets

VARIABLES
    kind,    \* which program runs: a builder chain or one call of a function
    pc,      \* "ready": the builder is live / the call is pending; "done"
    T,       \* T::table() of the Model type the builder is generic over
    sel,     \* SelectQuery<T>
    loader,  \* Option<EagerLoader<T>>
    ins,     \* InsertQuery<T>
    upd,     \* UpdateQuery<T>
    del,     \* DeleteQuery<T>
    hist,    \* the chained calls made so far, in call order
    arg,     \* the argument of the pending function call
    ret      \* Option of the returned value (build()'s String, a Result, ...)

vars == <<kind, pc, T, sel, loader, ins, upd, del, hist, arg, ret>>

----------------------------------------------------------------------------
(* Bounds *)

MaxCalls == 4      \* chained builder calls before build()
MaxCols == 2       \* columns of a Table handed to MigrationGenerator
MaxFields == 2     \* fields of a struct handed to derive(Model)
MaxSuffix == 4     \* characters following "Varchar" in a declared type
MaxSize == 12      \* sizes n formatted as "Varchar(n)"

----------------------------------------------------------------------------
(* Option, Result *)

None == <<>>
Some(x) == <<x>>
IsSome(o) == o # <<>>
Unwrap(o) == o[1]

Ok(v) == [res |-> "Ok", val |-> v]
Err(e) == [res |-> "Err", err |-> e]
Panicked(m) == [res |-> "Panic", msg |-> m]

----------------------------------------------------------------------------
(* std: strings *)

Digits == <<"0", "1", "2", "3", "4", "5", "6", "7", "8", "9">>

\* format!("{}", n) for an unsigned integer: its decimal digits.
RECURSIVE to_string(_)
to_string(n) ==
    IF n < 10 THEN Digits[n + 1]
    ELSE to_string(n \div 10) \o Digits[(n % 10) + 1]

\* [String]::join(sep)
RECURSIVE Join(_, _)
Join(v, sep) ==
    IF v = <<>> THEN ""
    ELSE IF Len(v) = 1 THEN v[1]
    ELSE v[1] \o sep \o Join(Tail(v), sep)

\* str::starts_with
starts_with(s, p) == Len(s) >= Len(p) /\ SubSeq(s, 1, Len(p)) = p

\* str::find(char): the 0-based offset of the first occurrence
find(s, ch) ==
    LET hits == {i \in 1..Len(s) : SubSeq(s, i, i) = ch}
    IN  IF hits = {} THEN None
        ELSE Some((CHOOSE i \in hits : \A j \in hits : i <= j) - 1)

----------------------------------------------------------------------------
(* model.rs *)

Integer == [tag |-> "Integer"]
Varchar(size) == [tag |-> "Varchar", size |-> size]
Boolean == [tag |-> "Boolean"]
Float == [tag |-> "Float"]

Column(name, data_type, is_primary_key) ==
    [name |-> name, data_type |-> data_type, is_primary_key |-> is_primary_key]

Table(name, columns) == [name |-> name, columns |-> columns]

\* examples/usage_example.rs: User::table()
UserTable ==
    Table("users", << Column("id", Integer, TRUE),
                      Column("name", Varchar(100), FALSE),
                      Column("email", Varchar(150), FALSE),
                      Column("is_active", Boolean, FALSE) >>)

\* a second Model, the related side of a Relationship
PostTable ==
    Table("posts", << Column("id", Integer, TRUE),
                      Column("user_id", Integer, FALSE) >>)

ModelTables == {UserTable, PostTable}

----------------------------------------------------------------------------
(* query_builder.rs: SelectQuery *)

SelectQuery_new(t) ==
    [table |-> t, selected_columns |-> <<>>, where_clause |-> None,
     joins |-> <<>>, order_by |-> <<>>, limit |-> None, offset |-> None]

SelectQuery_select(self, columns) ==
    [self EXCEPT !.selected_columns = columns]

\* mutant: a second filter() is AND-combined with the first
SelectQuery_filter_and(self, condition) ==
    [self EXCEPT !.where_clause =
        IF IsSome(@) THEN Some(Unwrap(@) \o " AND " \o condition)
        ELSE Some(condition)]

SelectQuery_filter(self, condition) ==
    [self EXCEPT !.where_clause = Some(condition)]

SelectQuery_order_by(self, columns) ==
    [self EXCEPT !.order_by = columns]

SelectQuery_limit(self, limit) ==
    [self EXCEPT !.limit = Some(limit)]

SelectQuery_offset(self, offset) ==
    [self EXCEPT !.offset = Some(offset)]

\* mutant: ORDER BY is pushed before WHERE
SelectQuery_build_order_first(self) ==
    LET q1 == IF self.selected_columns = <<>>
              THEN "SELECT *"
              ELSE "SELECT " \o Join(self.selected_columns, ", ")
        q2 == q1 \o " FROM " \o self.table.name
        q3 == IF self.order_by # <<>>
              THEN q2 \o " ORDER BY " \o Join(self.order_by, ", ")
              ELSE q2
        q4 == IF IsSome(self.where_clause)
              THEN q3 \o " WHERE " \o Unwrap(self.where_clause)
              ELSE q3
        q5 == IF IsSome(self.limit)
              THEN q4 \o " LIMIT " \o to_string(Unwrap(self.limit))
              ELSE q4
        q6 == IF IsSome(self.offset)
              THEN q5 \o " OFFSET " \o to_string(Unwrap(self.offset))
              ELSE q5
    IN  q6

\* The joins field is never read by build().
SelectQuery_build(self) ==
    LET q1 == IF self.selected_columns = <<>>
              THEN "SELECT *"
              ELSE "SELECT " \o Join(self.selected_columns, ", ")
        q2 == q1 \o " FROM " \o self.table.name
        q3 == IF IsSome(self.where_clause)
              THEN q2 \o " WHERE " \o Unwrap(self.where_clause)
              ELSE q2
        q4 == IF self.order_by # <<>>
              THEN q3 \o " ORDER BY " \o Join(self.order_by, ", ")
              ELSE q3
        q5 == IF IsSome(self.limit)
              THEN q4 \o " LIMIT " \o to_string(Unwrap(self.limit))
              ELSE q4
        q6 == IF IsSome(self.offset)
              THEN q5 \o " OFFSET " \o to_string(Unwrap(self.offset))
              ELSE q5
    IN  q6

----------------------------------------------------------------------------
(* eager_loading.rs *)

\* impls of trait Relationship: RelatedModel::table(), foreign_key(),
\* related_key()
Relationships ==
    { [related_table |-> PostTable, foreign_key |-> "id",
       related_key |-> "user_id"],
      [related_table |-> UserTable, foreign_key |-> "user_id",
       related_key |-> "id"] }

EagerLoader_new(base_query) == [base_query |-> base_query]

EagerLoader_with(self, R) ==
    LET base_table == self.base_query.table
        related_table == R.related_table
        join_condition == base_table.name \o "." \o R.foreign_key \o " = "
                          \o related_table.name \o "." \o R.related_key
        join_clause == "INNER JOIN " \o related_table.name \o " ON "
                       \o join_condition
    IN  [self EXCEPT !.base_query.joins = Append(@, join_clause)]

EagerLoader_build(self) == SelectQuery_build(self.base_query)

----------------------------------------------------------------------------
(* query_builder.rs: InsertQuery *)

InsertQuery_new(t) == [table |-> t, values |-> <<>>]

InsertQuery_value(self, column, value) ==
    [self EXCEPT !.values = Append(@, <<column, value>>)]

InsertQuery_build(self) ==
    LET columns == [i \in 1..Len(self.values) |-> self.values[i][1]]
        values == [i \in 1..Len(self.values) |->
                      "'" \o self.values[i][2] \o "'"]
    IN  "INSERT INTO " \o self.table.name \o " (" \o Join(columns, ", ")
        \o ") VALUES (" \o Join(values, ", ") \o ");"

----------------------------------------------------------------------------
(* query_builder.rs: UpdateQuery *)

UpdateQuery_new(t) == [table |-> t, set_clauses |-> <<>>, where_clause |-> None]

\* mutant: set() replaces the pairs instead of pushing one
UpdateQuery_set_replace(self, column, value) ==
    [self EXCEPT !.set_clauses = <<<<column, value>>>>]

UpdateQuery_set(self, column, value) ==
    [self EXCEPT !.set_clauses = Append(@, <<column, value>>)]

UpdateQuery_filter(self, condition) ==
    [self EXCEPT !.where_clause = Some(condition)]

UpdateQuery_build(self) ==
    LET set_clause == [i \in 1..Len(self.set_clauses) |->
                          self.set_clauses[i][1] \o " = '"
                          \o self.set_clauses[i][2] \o "'"]
        query == "UPDATE " \o self.table.name \o " SET "
                 \o Join(set_clause, ", ")
    IN  IF IsSome(self.where_clause)
        THEN query \o " WHERE " \o Unwrap(self.where_clause)
        ELSE query

----------------------------------------------------------------------------
(* query_builder.rs: DeleteQuery *)

DeleteQuery_new(t) == [table |-> t, where_clause |-> None]

DeleteQuery_filter(self, condition) ==
    [self EXCEPT !.where_clause = Some(condition)]

DeleteQuery_build(self) ==
    LET query == "DELETE FROM " \o self.table.name
    IN  IF IsSome(self.where_clause)
        THEN query \o " WHERE " \o Unwrap(self.where_clause)
        ELSE query

----------------------------------------------------------------------------
(* migration.rs *)

\* mutant: Varchar loses its size
map_data_type_to_sql_unsized(data_type) ==
    CASE data_type.tag = "Integer" -> "INTEGER"
      [] data_type.tag = "Varchar" -> "VARCHAR"
      [] data_type.tag = "Boolean" -> "BOOLEAN"
      [] data_type.tag = "Float" -> "FLOAT"

map_data_type_to_sql(data_type) ==
    CASE data_type.tag = "Integer" -> "INTEGER"
      [] data_type.tag = "Varchar" -> "VARCHAR(" \o to_string(data_type.size) \o ")"
      [] data_type.tag = "Boolean" -> "BOOLEAN"
      [] data_type.tag = "Float" -> "FLOAT"

Migration(up, down) == [up |-> up, down |-> down]

MigrationGenerator_generate(table) ==
    LET defs == [i \in 1..Len(table.columns) |->
                    table.columns[i].name \o " "
                    \o map_data_type_to_sql(table.columns[i].data_type)
                    \o (IF table.columns[i].is_primary_key
                        THEN " PRIMARY KEY" ELSE "")]
        up == "CREATE TABLE " \o table.name \o " (" \o Join(defs, ", ") \o ");"
        down == "DROP TABLE IF EXISTS " \o table.name \o ";"
    IN  Migration(up, down)

----------------------------------------------------------------------------
(* std: str::parse::<usize>, str::parse::<bool>, str::to_lowercase *)

IsDigit(c) == \E d \in 1..10 : Digits[d] = c

DigitVal(c) == (CHOOSE d \in 1..10 : Digits[d] = c) - 1

AllDigits(s) == \A i \in 1..Len(s) : IsDigit(SubSeq(s, i, i))

RECURSIVE StripZeros(_)
StripZeros(s) ==
    IF Len(s) > 1 /\ Head(s) = "0" THEN StripZeros(Tail(s)) ELSE s

\* a > b for digit strings of one length
RECURSIVE DigitsGreater(_, _)
DigitsGreater(a, b) ==
    IF a = "" THEN FALSE
    ELSE IF Head(a) # Head(b) THEN DigitVal(Head(a)) > DigitVal(Head(b))
    ELSE DigitsGreater(Tail(a), Tail(b))

\* usize::MAX on a 64-bit host, in decimal
UsizeMaxDigits == "18446744073709551615"

Overflows(digits) ==
    LET sig == StripZeros(digits)
    IN  \/ Len(sig) > Len(UsizeMaxDigits)
        \/ Len(sig) = Len(UsizeMaxDigits) /\ DigitsGreater(sig, UsizeMaxDigits)

RECURSIVE DigitsValue(_)
DigitsValue(s) ==
    IF s = "" THEN 0
    ELSE DigitsValue(SubSeq(s, 1, Len(s) - 1)) * 10
         + DigitVal(SubSeq(s, Len(s), Len(s)))

\* core::num from_str_radix(src, 10) for an unsigned type: an optional '+',
\* then one or more digits; '-' is no digit; None stands for Err(_).
parse_usize(src) ==
    LET digits == IF Len(src) > 0 /\ Head(src) = "+" THEN Tail(src) ELSE src
    IN  IF src = "" THEN None
        ELSE IF digits = "" THEN None
        ELSE IF ~AllDigits(digits) THEN None
        ELSE IF Overflows(digits) THEN None
        ELSE Some(DigitsValue(digits))

\* <bool as FromStr>::from_str
parse_bool(s) ==
    CASE s = "true" -> Some(TRUE)
      [] s = "false" -> Some(FALSE)
      [] OTHER -> None

UpperCase == "ABCDEFGHIJKLMNOPQRSTUVWXYZ"
LowerCase == "abcdefghijklmnopqrstuvwxyz"

RECURSIVE to_lowercase(_)
to_lowercase(s) ==
    IF s = "" THEN ""
    ELSE LET c == Head(s)
             up == {i \in 1..Len(UpperCase) : SubSeq(UpperCase, i, i) = c}
             lc == IF up = {} THEN c
                   ELSE LET i == CHOOSE i \in up : TRUE
                        IN  SubSeq(LowerCase, i, i)
         IN  lc \o to_lowercase(Tail(s))

----------------------------------------------------------------------------
(* rusty_orm_macros/src/lib.rs *)

DefaultVarcharSize == 255

\* mutant: the first path segment decides, not the last
map_rust_type_to_sql_first(ty) ==
    IF ty.kind = "Path"
    THEN LET ident == ty.segments[1]
         IN  CASE ident \in {"i32", "i64"} -> Integer
               [] ident = "String" -> Varchar(DefaultVarcharSize)
               [] ident = "bool" -> Boolean
               [] ident \in {"f32", "f64"} -> Float
               [] OTHER -> Varchar(DefaultVarcharSize)
    ELSE Varchar(DefaultVarcharSize)

\* ty: a syn::Type, [kind |-> "Path", segments |-> <<ident, ...>>] or another
\* variant.
map_rust_type_to_sql(ty) ==
    IF ty.kind = "Path"
    THEN LET ident == ty.segments[Len(ty.segments)]
         IN  CASE ident \in {"i32", "i64"} -> Integer
               [] ident = "String" -> Varchar(DefaultVarcharSize)
               [] ident = "bool" -> Boolean
               [] ident \in {"f32", "f64"} -> Float
               [] OTHER -> Varchar(DefaultVarcharSize)
    ELSE Varchar(DefaultVarcharSize)

\* mutant: a size of 0 is refused
parse_sql_type_positive_only(type_str) ==
    IF starts_with(type_str, "Varchar")
    THEN LET start == find(type_str, "(")
             end == find(type_str, ")")
         IN  IF start = None
             THEN Err("Expected '(' in Varchar type definition")
             ELSE IF end = None
             THEN Err("Expected ')' in Varchar type definition")
             ELSE IF Unwrap(start) + 1 > Unwrap(end)
             THEN Panicked("slice index starts after it ends")
             ELSE LET size_str == SubSeq(type_str, Unwrap(start) + 2,
                                         Unwrap(end))
                      size == parse_usize(size_str)
                  IN  IF size = None \/ size = Some(0)
                      THEN Err("Failed to parse size for Varchar")
                      ELSE Ok(Varchar(Unwrap(size)))
    ELSE CASE type_str = "Integer" -> Ok(Integer)
           [] type_str = "Boolean" -> Ok(Boolean)
           [] type_str = "Float" -> Ok(Float)
           [] OTHER -> Err("Unsupported data type: " \o type_str)

\* mutant: a size that does not parse falls back to the default size
parse_sql_type_default_size(type_str) ==
    IF starts_with(type_str, "Varchar")
    THEN LET start == find(type_str, "(")
             end == find(type_str, ")")
         IN  IF start = None
             THEN Err("Expected '(' in Varchar type definition")
             ELSE IF end = None
             THEN Err("Expected ')' in Varchar type definition")
             ELSE IF Unwrap(start) + 1 > Unwrap(end)
             THEN Panicked("slice index starts after it ends")
             ELSE LET size_str == SubSeq(type_str, Unwrap(start) + 2,
                                         Unwrap(end))
                      size == parse_usize(size_str)
                  IN  IF size = None
                      THEN Ok(Varchar(DefaultVarcharSize))
                      ELSE Ok(Varchar(Unwrap(size)))
    ELSE CASE type_str = "Integer" -> Ok(Integer)
           [] type_str = "Boolean" -> Ok(Boolean)
           [] type_str = "Float" -> Ok(Float)
           [] OTHER -> Err("Unsupported data type: " \o type_str)

\* &type_str[start + 1..end] panics when start + 1 > end.
parse_sql_type(type_str) ==
    IF starts_with(type_str, "Varchar")
    THEN LET start == find(type_str, "(")
             end == find(type_str, ")")
         IN  IF start = None
             THEN Err("Expected '(' in Varchar type definition")
             ELSE IF end = None
             THEN Err("Expected ')' in Varchar type definition")
             ELSE IF Unwrap(start) + 1 > Unwrap(end)
             THEN Panicked("slice index starts after it ends")
             ELSE LET size_str == SubSeq(type_str, Unwrap(start) + 2,
                                         Unwrap(end))
                      size == parse_usize(size_str)
                  IN  IF size = None
                      THEN Err("Failed to parse size for Varchar")
                      ELSE Ok(Varchar(Unwrap(size)))
    ELSE CASE type_str = "Integer" -> Ok(Integer)
           [] type_str = "Boolean" -> Ok(Boolean)
           [] type_str = "Float" -> Ok(Float)
           [] OTHER -> Err("Unsupported data type: " \o type_str)

\* syn values.  Lit: [kind |-> "Str", value] or another literal.  NestedMeta:
\* [kind |-> "NameValue", path, lit] for NestedMeta::Meta(Meta::NameValue) or
\* another shape.  Attribute: [path, meta], meta being what parse_meta()
\* returns: [kind |-> "Error"], [kind |-> "List", nested], [kind |->
\* "NameValue", path, lit] or [kind |-> "Path"].

\* for nested_meta in nested.iter() { ... }, lines 123-139
RECURSIVE column_nested(_, _)
column_nested(nested, col) ==
    IF nested = <<>> THEN Ok(col)
    ELSE LET nm == Head(nested)
             rest == Tail(nested)
         IN  IF nm.kind # "NameValue" THEN column_nested(rest, col)
             ELSE IF nm.path = "type"
             THEN IF nm.lit.kind = "Str"
                  THEN LET r == parse_sql_type(nm.lit.value)
                       IN  IF r.res = "Ok"
                           THEN column_nested(rest,
                                    [col EXCEPT !.data_type = r.val])
                           ELSE r
                  ELSE column_nested(rest, col)
             ELSE IF nm.path = "primary_key"
             THEN IF nm.lit.kind = "Str"
                  THEN LET b == parse_bool(nm.lit.value)
                       IN  column_nested(rest,
                               [col EXCEPT !.is_primary_key =
                                   IF IsSome(b) THEN Unwrap(b) ELSE FALSE])
                  ELSE column_nested(rest, col)
             ELSE column_nested(rest, col)

\* for attr in &field.attrs { ... }, lines 119-142
RECURSIVE column_attrs(_, _)
column_attrs(attrs, col) ==
    IF attrs = <<>> THEN Ok(col)
    ELSE LET attr == Head(attrs)
             rest == Tail(attrs)
         IN  IF attr.path # "column" THEN column_attrs(rest, col)
             ELSE IF attr.meta.kind = "Error" THEN Err("parse_meta")
             ELSE IF attr.meta.kind = "List"
             THEN LET r == column_nested(attr.meta.nested, col)
                  IN  IF r.res = "Ok" THEN column_attrs(rest, r.val) ELSE r
             ELSE column_attrs(rest, col)

\* for field in fields.iter() { ... }, lines 109-145
RECURSIVE columns_of_fields(_, _)
columns_of_fields(fields, columns) ==
    IF fields = <<>> THEN Ok(columns)
    ELSE LET field == Head(fields)
         IN  IF field.ident = None
             THEN Panicked("called Option::unwrap() on a None value")
             ELSE LET default_data_type == map_rust_type_to_sql(field.ty)
                      r == column_attrs(field.attrs,
                               [name |-> Unwrap(field.ident),
                                data_type |-> default_data_type,
                                is_primary_key |-> FALSE])
                  IN  IF r.res = "Ok"
                      THEN columns_of_fields(Tail(fields),
                                             Append(columns, r.val))
                      ELSE r

\* mutant: each column is put in front of those before it
RECURSIVE Reverse(_)
Reverse(q) == IF q = <<>> THEN <<>> ELSE Append(Reverse(Tail(q)), Head(q))

get_columns_reversed(input) ==
    IF input.data.kind # "Struct"
    THEN Err("Model can only be derived for structs")
    ELSE LET r == columns_of_fields(input.data.fields, <<>>)
         IN  IF r.res = "Ok" THEN Ok(Reverse(r.val)) ELSE r

get_columns(input) ==
    IF input.data.kind # "Struct"
    THEN Err("Model can only be derived for structs")
    ELSE columns_of_fields(input.data.fields, <<>>)

RECURSIVE get_table_name_from(_)
get_table_name_from(attrs) ==
    IF attrs = <<>> THEN None
    ELSE LET meta == Head(attrs).meta
         IN  IF /\ meta.kind = "NameValue"
                /\ meta.path = "table_name"
                /\ meta.lit.kind = "Str"
             THEN Some(meta.lit.value)
             ELSE get_table_name_from(Tail(attrs))

get_table_name(input) == get_table_name_from(input.attrs)

\* The impl the macro expands to, as the Table its table() returns.
derive_model(input) ==
    LET name == input.ident
        table_name == IF IsSome(get_table_name(input))
                      THEN Unwrap(get_table_name(input))
                      ELSE to_lowercase(name)
        columns == get_columns(input)
    IN  IF columns.res = "Ok"
        THEN Ok(Table(table_name,
                      [i \in 1..Len(columns.val) |->
                          Column(columns.val[i].name,
                                 columns.val[i].data_type,
                                 columns.val[i].is_primary_key)]))
        ELSE columns

----------------------------------------------------------------------------
(* Inputs *)

\* arguments of the builder calls (examples/usage_example.rs)
ColumnLists == {<<>>, <<"id">>, <<"id", "name">>}
OrderLists == {<<>>, <<"name">>, <<"name", "id">>}
Conditions == {"is_active = true", "id = 1"}
Limits == {0, 10}
Offsets == {5}
ValueColumns == {"name", "email"}
Values == {"Alice", "x"}

\* every sequence over S of length at most n
RECURSIVE SeqsUpTo(_, _)
SeqsUpTo(S, n) ==
    IF n = 0 THEN {<<>>}
    ELSE LET shorter == SeqsUpTo(S, n - 1)
         IN  shorter \cup {Append(q, x) : q \in shorter, x \in S}

\* Tables handed to MigrationGenerator::generate
MigrationColumns ==
    {Column(n, d, k) : n \in {"id", "name"},
                       d \in {Integer, Varchar(0), Varchar(100), Boolean, Float},
                       k \in BOOLEAN}

MigrationTables ==
    {Table(n, c) : n \in {"users", "posts"},
                   c \in SeqsUpTo(MigrationColumns, MaxCols)}

\* declared-type strings
SuffixAlphabet == {"(", ")", "0", "1", "a", "+"}

RECURSIVE StringsUpTo(_)
StringsUpTo(n) ==
    IF n = 0 THEN {""}
    ELSE LET shorter == StringsUpTo(n - 1)
         IN  shorter \cup {s \o c : s \in shorter, c \in SuffixAlphabet}

FormatVarchar(n) == "Varchar(" \o to_string(n) \o ")"

TypeStrings ==
    {"Varchar" \o s : s \in StringsUpTo(MaxSuffix)}
    \cup {FormatVarchar(n) : n \in 0..MaxSize}
    \cup {"Integer", "Boolean", "Float", "Text", "", "integer", "varchar(1)",
          "Varchar(100)", "Varchar(150)", "Varchar(255)", "Varchar(abc)",
          "Varchar(10", "Varchar10)", "Varchar)10(", "Varchar(-1)",
          "Varchar( 1)", "Varchar(18446744073709551616)", "Varchar(10)x",
          "Varchars(7)"}

\* native field types
TypeIdents == {"i32", "i64", "String", "bool", "f32", "f64", "u8", "Vec", "std"}

PathType(segments) == [kind |-> "Path", segments |-> segments]

NativeTypes ==
    {PathType(<<a>>) : a \in TypeIdents}
    \cup {PathType(<<a, b>>) : a \in TypeIdents, b \in TypeIdents}
    \cup {[kind |-> "Reference"], [kind |-> "Tuple"], [kind |-> "Array"]}

\* struct fields
Str(value) == [kind |-> "Str", value |-> value]
OtherLit == [kind |-> "Int"]
NameValue(path, lit) == [kind |-> "NameValue", path |-> path, lit |-> lit]
OtherNested == [kind |-> "Lit"]
ColumnAttr(nested) ==
    [path |-> "column", meta |-> [kind |-> "List", nested |-> nested]]
Field(ident, ty, attrs) == [ident |-> ident, ty |-> ty, attrs |-> attrs]

FieldDecls ==
    { Field(Some("id"), PathType(<<"i32">>),
            <<ColumnAttr(<<NameValue("type", Str("Integer")),
                           NameValue("primary_key", Str("true"))>>)>>),
      Field(Some("name"), PathType(<<"String">>),
            <<ColumnAttr(<<NameValue("type", Str("Varchar(100)"))>>)>>),
      Field(Some("email"), PathType(<<"String">>), <<>>),
      Field(Some("is_active"), PathType(<<"bool">>), <<>>),
      Field(Some("score"), PathType(<<"f64">>),
            <<ColumnAttr(<<NameValue("primary_key", Str("yes"))>>)>>),
      Field(Some("bio"), PathType(<<"std", "String">>),
            <<ColumnAttr(<<NameValue("type", Str("Varchar(abc)"))>>)>>),
      Field(Some("kind"), PathType(<<"u8">>),
            <<ColumnAttr(<<NameValue("type", Str("Text"))>>)>>),
      Field(Some("flag"), PathType(<<"i64">>),
            <<ColumnAttr(<<NameValue("primary_key", Str("true"))>>),
              ColumnAttr(<<NameValue("type", Str("Boolean"))>>)>>),
      Field(Some("tags"), [kind |-> "Reference"],
            <<[path |-> "serde", meta |-> [kind |-> "Path"]]>>),
      Field(Some("rev"), PathType(<<"i32">>),
            <<ColumnAttr(<<NameValue("type", Str("Varchar)1("))>>)>>),
      Field(None, PathType(<<"i32">>), <<>>),
      Field(Some("ratio"), PathType(<<"f32">>),
            <<ColumnAttr(<<NameValue("type", OtherLit),
                           NameValue("primary_key", Str("false")),
                           NameValue("unique", Str("true")),
                           OtherNested>>)>>),
      Field(Some("raw"), PathType(<<"String">>),
            <<[path |-> "column", meta |-> [kind |-> "Error"]]>>),
      Field(Some("code"), PathType(<<"String">>),
            <<ColumnAttr(<<NameValue("type", Str("Integer")),
                           NameValue("primary_key", Str("true")),
                           NameValue("type", Str("Varchar(10)")),
                           NameValue("primary_key", Str("True"))>>)>>),
      Field(Some("note"), PathType(<<"String">>),
            <<ColumnAttr(<<NameValue("type", Str("Varchar(x)")),
                           NameValue("type", Str("Float"))>>)>>) }

\* struct headers: #[table_name = "users"] struct User, and struct Post
StructHeaders ==
    { [ident |-> "User",
       attrs |-> <<[path |-> "table_name",
                    meta |-> NameValue("table_name", Str("users"))]>>],
      [ident |-> "BlogPost", attrs |-> <<>>] }

DeriveInputs ==
    {[ident |-> h.ident, attrs |-> h.attrs,
      data |-> [kind |-> "Struct", fields |-> f]] :
        h \in StructHeaders, f \in SeqsUpTo(FieldDecls, MaxFields)}
    \cup {[ident |-> h.ident, attrs |-> h.attrs, data |-> [kind |-> "Enum"]] :
            h \in StructHeaders}

----------------------------------------------------------------------------
(* The programs: one builder chain ended by build(), or one function call *)

Builders == {"SelectQuery", "InsertQuery", "UpdateQuery", "DeleteQuery"}

InitBuilder ==
    /\ kind \in Builders
    /\ pc = "ready"
    /\ T \in ModelTables
    /\ sel = IF kind = "SelectQuery" THEN SelectQuery_new(T) ELSE None
    /\ ins = IF kind = "InsertQuery" THEN InsertQuery_new(T) ELSE None
    /\ upd = IF kind = "UpdateQuery" THEN UpdateQuery_new(T) ELSE None
    /\ del = IF kind = "DeleteQuery" THEN DeleteQuery_new(T) ELSE None
    /\ loader = None
    /\ hist = <<>>
    /\ arg = None
    /\ ret = None

InitCall ==
    /\ \/ kind = "generate" /\ arg \in MigrationTables
       \/ kind = "derive_model" /\ arg \in DeriveInputs
       \/ kind = "parse_sql_type" /\ arg \in TypeStrings
       \/ kind = "map_rust_type_to_sql" /\ arg \in NativeTypes
    /\ pc = "ready"
    /\ T = None /\ sel = None /\ ins = None /\ upd = None /\ del = None
    /\ loader = None
    /\ hist = <<>>
    /\ ret = None

Init == InitBuilder \/ InitCall

Chain(k) == kind = k /\ pc = "ready" /\ Len(hist) < MaxCalls

Record(op, a) == hist' = Append(hist, [op |-> op, arg |-> a])

Select_select ==
    /\ Chain("SelectQuery")
    /\ \E columns \in ColumnLists :
          /\ sel' = SelectQuery_select(sel, columns)
          /\ Record("select", columns)
    /\ UNCHANGED <<kind, pc, T, loader, ins, upd, del, arg, ret>>

Select_filter ==
    /\ Chain("SelectQuery")
    /\ \E condition \in Conditions :
          /\ sel' = SelectQuery_filter(sel, condition)
          /\ Record("filter", condition)
    /\ UNCHANGED <<kind, pc, T, loader, ins, upd, del, arg, ret>>

Select_order_by ==
    /\ Chain("SelectQuery")
    /\ \E columns \in OrderLists :
          /\ sel' = SelectQuery_order_by(sel, columns)
          /\ Record("order_by", columns)
    /\ UNCHANGED <<kind, pc, T, loader, ins, upd, del, arg, ret>>

Select_limit ==
    /\ Chain("SelectQuery")
    /\ \E limit \in Limits :
          /\ sel' = SelectQuery_limit(sel, limit)
          /\ Record("limit", limit)
    /\ UNCHANGED <<kind, pc, T, loader, ins, upd, del, arg, ret>>

Select_offset ==
    /\ Chain("SelectQuery")
    /\ \E offset \in Offsets :
          /\ sel' = SelectQuery_offset(sel, offset)
          /\ Record("offset", offset)
    /\ UNCHANGED <<kind, pc, T, loader, ins, upd, del, arg, ret>>

\* build(self) consumes the builder
Select_build ==
    /\ kind = "SelectQuery" /\ pc = "ready"
    /\ ret' = Some(SelectQuery_build(sel))
    /\ sel' = None
    /\ pc' = "done"
    /\ UNCHANGED <<kind, T, loader, ins, upd, del, hist, arg>>

\* EagerLoader::new(base_query) takes the SelectQuery over
Eager_new ==
    /\ kind = "SelectQuery" /\ pc = "ready"
    /\ loader' = EagerLoader_new(sel)
    /\ sel' = None
    /\ kind' = "EagerLoader"
    /\ UNCHANGED <<pc, T, ins, upd, del, hist, arg, ret>>

Eager_with ==
    /\ Chain("EagerLoader")
    /\ \E R \in Relationships :
          /\ loader' = EagerLoader_with(loader, R)
          /\ Record("with", R)
    /\ UNCHANGED <<kind, pc, T, sel, ins, upd, del, arg, ret>>

Eager_build ==
    /\ kind = "EagerLoader" /\ pc = "ready"
    /\ ret' = Some(EagerLoader_build(loader))
    /\ loader' = None
    /\ pc' = "done"
    /\ UNCHANGED <<kind, T, sel, ins, upd, del, hist, arg>>

Insert_value ==
    /\ Chain("InsertQuery")
    /\ \E column \in ValueColumns, value \in Values :
          /\ ins' = InsertQuery_value(ins, column, value)
          /\ Record("value", <<column, value>>)
    /\ UNCHANGED <<kind, pc, T, sel, loader, upd, del, arg, ret>>

Insert_build ==
    /\ kind = "InsertQuery" /\ pc = "ready"
    /\ ret' = Some(InsertQuery_build(ins))
    /\ ins' = None
    /\ pc' = "done"
    /\ UNCHANGED <<kind, T, sel, loader, upd, del, hist, arg>>

Update_set ==
    /\ Chain("UpdateQuery")
    /\ \E column \in ValueColumns, value \in Values :
          /\ upd' = UpdateQuery_set(upd, column, value)
          /\ Record("set", <<column, value>>)
    /\ UNCHANGED <<kind, pc, T, sel, loader, ins, del, arg, ret>>

Update_filter ==
    /\ Chain("UpdateQuery")
    /\ \E condition \in Conditions :
          /\ upd' = UpdateQuery_filter(upd, condition)
          /\ Record("filter", condition)
    /\ UNCHANGED <<kind, pc, T, sel, loader, ins, del, arg, ret>>

Update_build ==
    /\ kind = "UpdateQuery" /\ pc = "ready"
    /\ ret' = Some(UpdateQuery_build(upd))
    /\ upd' = None
    /\ pc' = "done"
    /\ UNCHANGED <<kind, T, sel, loader, ins, del, hist, arg>>

Delete_filter ==
    /\ Chain("DeleteQuery")
    /\ \E condition \in Conditions :
          /\ del' = DeleteQuery_filter(del, condition)
          /\ Record("filter", condition)
    /\ UNCHANGED <<kind, pc, T, sel, loader, ins, upd, arg, ret>>

Delete_build ==
    /\ kind = "DeleteQuery" /\ pc = "ready"
    /\ ret' = Some(DeleteQuery_build(del))
    /\ del' = None
    /\ pc' = "done"
    /\ UNCHANGED <<kind, T, sel, loader, ins, upd, hist, arg>>

Call_generate ==
    /\ kind = "generate" /\ pc = "ready"
    /\ ret' = Some(MigrationGenerator_generate(arg))
    /\ pc' = "done"
    /\ UNCHANGED <<kind, T, sel, loader, ins, upd, del, hist, arg>>

Call_derive_model ==
    /\ kind = "derive_model" /\ pc = "ready"
    /\ ret' = Some(derive_model(arg))
    /\ pc' = "done"
    /\ UNCHANGED <<kind, T, sel, loader, ins, upd, del, hist, arg>>

Call_parse_sql_type ==
    /\ kind = "parse_sql_type" /\ pc = "ready"
    /\ ret' = Some(parse_sql_type(arg))
    /\ pc' = "done"
    /\ UNCHANGED <<kind, T, sel, loader, ins, upd, del, hist, arg>>

Call_map_rust_type_to_sql ==
    /\ kind = "map_rust_type_to_sql" /\ pc = "ready"
    /\ ret' = Some(map_rust_type_to_sql(arg))
    /\ pc' = "done"
    /\ UNCHANGED <<kind, T, sel, loader, ins, upd, del, hist, arg>>

Next ==
    \/ Select_select \/ Select_filter \/ Select_order_by \/ Select_limit
    \/ Select_offset \/ Select_build
    \/ Eager_new \/ Eager_with \/ Eager_build
    \/ Insert_value \/ Insert_build
    \/ Update_set \/ Update_filter \/ Update_build
    \/ Delete_filter \/ Delete_build
    \/ Call_generate \/ Call_derive_model \/ Call_parse_sql_type
    \/ Call_map_rust_type_to_sql

Spec == Init /\ [][Next]_vars

----------------------------------------------------------------------------
(* Properties: what the call history and the arguments say the result is *)

Calls(op) == {i \in 1..Len(hist) : hist[i].op = op}

Called(op) == Calls(op) # {}

\* the argument of the last call of op
LastArg(op) ==
    hist[CHOOSE i \in Calls(op) : \A j \in Calls(op) : j <= i].arg

Built(k) == kind = k /\ pc = "done"

Result == Unwrap(ret)

\* the 1-based places where sub occurs in s
Occurrences(s, sub) ==
    {i \in 1..(Len(s) - Len(sub) + 1) : SubSeq(s, i, i + Len(sub) - 1) = sub}

Contains(s, sub) == Occurrences(s, sub) # {}

FirstAt(s, sub) ==
    CHOOSE i \in Occurrences(s, sub) : \A j \in Occurrences(s, sub) : i <= j

EndsWith(s, sub) ==
    Len(s) >= Len(sub) /\ SubSeq(s, Len(s) - Len(sub) + 1, Len(s)) = sub

\* C1: whatever the order of the select / filter / order_by / limit / offset
\* calls, SelectQuery::build() returns SELECT <cols> FROM <table> [WHERE <cond>]
\* [ORDER BY <cols>] [LIMIT <n>] [OFFSET <n>], <cols> being * when no column is
\* selected and the last selected names joined by ", " otherwise, each optional
\* clause present exactly when its last fragment is set (a column list that is
\* not empty, a condition, a number).
C1_SelectFixedOrder ==
    Built("SelectQuery") =>
        LET cols == IF Called("select") THEN LastArg("select") ELSE <<>>
            order == IF Called("order_by") THEN LastArg("order_by") ELSE <<>>
        IN  Result =
                "SELECT " \o (IF cols = <<>> THEN "*" ELSE Join(cols, ", "))
                \o " FROM " \o T.name
                \o (IF Called("filter")
                    THEN " WHERE " \o LastArg("filter") ELSE "")
                \o (IF order # <<>>
                    THEN " ORDER BY " \o Join(order, ", ") ELSE "")
                \o (IF Called("limit")
                    THEN " LIMIT " \o to_string(LastArg("limit")) ELSE "")
                \o (IF Called("offset")
                    THEN " OFFSET " \o to_string(LastArg("offset")) ELSE "")

\* the calls of the usage example, made in the reverse of the render order
C1_Witness ==
    /\ Built("SelectQuery")
    /\ Len(hist) = 4
    /\ hist[1].op = "limit" /\ hist[1].arg = 10
    /\ hist[2].op = "order_by" /\ hist[2].arg = <<"name">>
    /\ hist[3].op = "filter" /\ hist[3].arg = "is_active = true"
    /\ hist[4].op = "select" /\ hist[4].arg = <<"id", "name">>
    /\ ret = Some("SELECT id, name FROM users WHERE is_active = true"
                  \o " ORDER BY name LIMIT 10")

JoinClause(base, R) ==
    "INNER JOIN " \o R.related_table.name \o " ON " \o base.name \o "."
    \o R.foreign_key \o " = " \o R.related_table.name \o "." \o R.related_key

\* C2: after one or more with<R>() calls, EagerLoader::build() contains every
\* clause INNER JOIN <related> ON B.<fk> = <related>.<rk>, in call order, after
\* FROM B and before the WHERE clause.
C2_JoinsRendered ==
    (Built("EagerLoader") /\ Called("with")) =>
        /\ \A i \in Calls("with") :
              LET clause == JoinClause(T, hist[i].arg)
              IN  /\ Contains(Result, clause)
                  /\ FirstAt(Result, " FROM " \o T.name) < FirstAt(Result, clause)
                  /\ Contains(Result, " WHERE ") =>
                        FirstAt(Result, clause) < FirstAt(Result, " WHERE ")
        /\ \A i, j \in Calls("with") :
              i < j => FirstAt(Result, JoinClause(T, hist[i].arg))
                       <= FirstAt(Result, JoinClause(T, hist[j].arg))

\* C3: InsertQuery::build() returns exactly INSERT INTO T (c1, ..., cn) VALUES
\* ('v1', ..., 'vn'), the pairs in call order, duplicates kept, every value in
\* single quotes, and nothing after the closing parenthesis.
C3_InsertExact ==
    Built("InsertQuery") =>
        Result = "INSERT INTO " \o T.name \o " ("
                 \o Join([i \in 1..Len(hist) |-> hist[i].arg[1]], ", ")
                 \o ") VALUES ("
                 \o Join([i \in 1..Len(hist) |-> "'" \o hist[i].arg[2] \o "'"],
                         ", ")
                 \o ")"

\* the set(c, v) calls of the history, in call order
RECURSIVE SetPairs(_)
SetPairs(h) ==
    IF h = <<>> THEN <<>>
    ELSE IF Head(h).op = "set"
    THEN <<Head(h).arg[1] \o " = '" \o Head(h).arg[2] \o "'">>
         \o SetPairs(Tail(h))
    ELSE SetPairs(Tail(h))

\* C4: UpdateQuery::build() returns exactly UPDATE T SET c1 = 'v1', ...,
\* cn = 'vn', one pair for every set() call, in call order, followed by
\* " WHERE cond" exactly when filter was called.
C4_UpdateExact ==
    Built("UpdateQuery") =>
        Result = "UPDATE " \o T.name \o " SET " \o Join(SetPairs(hist), ", ")
                 \o (IF Called("filter")
                     THEN " WHERE " \o LastArg("filter") ELSE "")

\* the same column set twice, around a filter
C4_Witness ==
    /\ Built("UpdateQuery")
    /\ Len(hist) = 3
    /\ hist[1].op = "set" /\ hist[1].arg = <<"email", "x">>
    /\ hist[2].op = "filter"
    /\ hist[3].op = "set" /\ hist[3].arg = <<"email", "Alice">>
    /\ ret = Some("UPDATE users SET email = 'x', email = 'Alice' WHERE id = 1")

\* C5: in the Select, Update and Delete builders the rendered SQL has exactly
\* one WHERE clause, holding the condition of the last filter() call and no
\* earlier one, when filter() was called, and none otherwise; Delete renders
\* DELETE FROM <table> followed by that clause only.
C5_LastFilterWins ==
    (Built("SelectQuery") \/ Built("UpdateQuery") \/ Built("DeleteQuery")) =>
        IF Called("filter")
        THEN /\ Cardinality(Occurrences(Result, " WHERE ")) = 1
             /\ Contains(Result, " WHERE " \o LastArg("filter"))
             /\ \A i \in Calls("filter") :
                   hist[i].arg # LastArg("filter")
                       => ~Contains(Result, hist[i].arg)
             /\ kind # "SelectQuery"
                   => EndsWith(Result, " WHERE " \o LastArg("filter"))
             /\ kind = "DeleteQuery"
                   => Result = "DELETE FROM " \o T.name \o " WHERE "
                               \o LastArg("filter")
        ELSE /\ ~Contains(Result, "WHERE")
             /\ kind = "DeleteQuery" => Result = "DELETE FROM " \o T.name

\* two different conditions, another call between them
C5_Witness ==
    /\ Built("SelectQuery")
    /\ Len(hist) = 3
    /\ hist[1].op = "filter" /\ hist[1].arg = "is_active = true"
    /\ hist[2].op = "order_by"
    /\ hist[3].op = "filter" /\ hist[3].arg = "id = 1"

\* the SQL type the specification names for a DataType
SqlTypeName(d) ==
    CASE d = Integer -> "INTEGER"
      [] d = Boolean -> "BOOLEAN"
      [] d = Float -> "FLOAT"
      [] OTHER -> "VARCHAR(" \o to_string(d.size) \o ")"

\* C6: generate yields up = CREATE TABLE <name> (<defs>); with one definition
\* <col> <SQL-TYPE>[ PRIMARY KEY] per column, in column order, joined by ", ",
\* and down = DROP TABLE IF EXISTS <name>;
C6_MigrationExact ==
    Built("generate") =>
        /\ Result.up =
              "CREATE TABLE " \o arg.name \o " ("
              \o Join([i \in 1..Len(arg.columns) |->
                          arg.columns[i].name \o " "
                          \o SqlTypeName(arg.columns[i].data_type)
                          \o (IF arg.columns[i].is_primary_key
                              THEN " PRIMARY KEY" ELSE "")], ", ")
              \o ");"
        /\ Result.down = "DROP TABLE IF EXISTS " \o arg.name \o ";"

C6_Witness ==
    /\ Built("generate")
    /\ arg = Table("users", <<Column("id", Integer, TRUE),
                              Column("name", Varchar(100), FALSE)>>)
    /\ Result.up
         = "CREATE TABLE users (id INTEGER PRIMARY KEY, name VARCHAR(100));"
    /\ Result.down = "DROP TABLE IF EXISTS users;"

\* the (key, string) pairs a field's #[column(...)] lists give, in source order
RECURSIVE NestedEntries(_)
NestedEntries(nested) ==
    IF nested = <<>> THEN <<>>
    ELSE LET nm == Head(nested)
         IN  (IF nm.kind = "NameValue" /\ nm.lit.kind = "Str"
              THEN <<[key |-> nm.path, value |-> nm.lit.value]>> ELSE <<>>)
             \o NestedEntries(Tail(nested))

RECURSIVE ColumnEntries(_)
ColumnEntries(attrs) ==
    IF attrs = <<>> THEN <<>>
    ELSE LET a == Head(attrs)
         IN  (IF a.path = "column" /\ a.meta.kind = "List"
              THEN NestedEntries(a.meta.nested) ELSE <<>>)
             \o ColumnEntries(Tail(attrs))

IsTypeEntry(e) == e.key = "type"
IsFlagEntry(e) == e.key = "primary_key"

\* the declared-type strings of a field, and its primary-key flag strings
DeclaredTypes(field) == SelectSeq(ColumnEntries(field.attrs), IsTypeEntry)
Flags(field) == SelectSeq(ColumnEntries(field.attrs), IsFlagEntry)

Last(q) == q[Len(q)]

\* a field list: a struct whose fields are named and whose column attributes
\* are well-formed lists
IsFieldList(input) ==
    /\ input.data.kind = "Struct"
    /\ \A i \in 1..Len(input.data.fields) :
          LET f == input.data.fields[i]
          IN  /\ f.ident # None
              /\ \A k \in 1..Len(f.attrs) :
                    f.attrs[k].path = "column" => f.attrs[k].meta.kind = "List"

Malformed(type_str) == parse_sql_type(type_str).res # "Ok"

\* C7: derivation over a field list gives a Table with one Column per field, in
\* declaration order, column i having field i's name, the parsed declared type
\* when one is present and the default mapping of the native type otherwise,
\* and is_primary_key true iff the flag string parses as true; it fails, giving
\* no Table, exactly when a present declared-type string is malformed.
C7_DerivationInOrder ==
    (Built("derive_model") /\ IsFieldList(arg)) =>
        LET fields == arg.data.fields
        IN  IF \E i \in 1..Len(fields) :
                  \E k \in 1..Len(DeclaredTypes(fields[i])) :
                      Malformed(DeclaredTypes(fields[i])[k].value)
            THEN Result.res # "Ok"
            ELSE /\ Result.res = "Ok"
                 /\ Len(Result.val.columns) = Len(fields)
                 /\ \A i \in 1..Len(fields) :
                       LET c == Result.val.columns[i]
                           types == DeclaredTypes(fields[i])
                           flags == Flags(fields[i])
                       IN  /\ c.name = Unwrap(fields[i].ident)
                           /\ c.data_type =
                                 IF types = <<>>
                                 THEN map_rust_type_to_sql(fields[i].ty)
                                 ELSE parse_sql_type(Last(types).value).val
                           /\ c.is_primary_key =
                                 (/\ flags # <<>>
                                  /\ parse_bool(Last(flags).value) = Some(TRUE))

\* the example's name and id fields, declared in the other order
C7_Witness ==
    /\ Built("derive_model")
    /\ arg.data.kind = "Struct"
    /\ Len(arg.data.fields) = 2
    /\ arg.data.fields[1].ident = Some("name")
    /\ arg.data.fields[2].ident = Some("id")
    /\ Result.res = "Ok"
    /\ Result.val.columns = <<Column("name", Varchar(100), FALSE),
                              Column("id", Integer, TRUE)>>

\* C8: for every size n, parsing "Varchar(n)", n in decimal, succeeds and gives
\* Varchar(n).
C8_VarcharRoundTrip ==
    Built("parse_sql_type") =>
        \A n \in 0..MaxSize :
            arg = FormatVarchar(n) => Result = Ok(Varchar(n))

C8_Witness ==
    /\ Built("parse_sql_type")
    /\ arg = FormatVarchar(10)
    /\ arg = "Varchar(10)"
    /\ Result = Ok(Varchar(10))

HasChar(s, c) == \E i \in 1..Len(s) : SubSeq(s, i, i) = c

\* the text between the first '(' and the first ')' that follows it
Interior(s) ==
    LET open == FirstAt(s, "(")
        after == SubSeq(s, open + 1, Len(s))
    IN  SubSeq(after, 1, FirstAt(after, ")") - 1)

\* decimal digits, with an optional leading '+'
IsUnsignedNumeral(s) ==
    LET body == IF s # "" /\ Head(s) = "+" THEN Tail(s) ELSE s
    IN  body # "" /\ \A i \in 1..Len(body) : SubSeq(body, i, i) \in
            {"0", "1", "2", "3", "4", "5", "6", "7", "8", "9"}

\* the three malformations of a Varchar declaration
NoOpenParen(s) == ~HasChar(s, "(")
NoCloseParen(s) == ~HasChar(s, ")")
BadInterior(s) ==
    /\ HasChar(s, "(")
    /\ HasChar(SubSeq(s, FirstAt(s, "(") + 1, Len(s)), ")")
    /\ FirstAt(s, "(") < FirstAt(s, ")")
    /\ ~IsUnsignedNumeral(Interior(s))

C10_DefaultTypeTotal ==
    Built("map_rust_type_to_sql") =>
        LET named(S) == arg.kind = "Path" /\ Last(arg.segments) \in S
        IN  /\ Result \in {Integer, Boolean, Float, Varchar(255)}
            /\ Result = Integer <=> named({"i32", "i64"})
            /\ Result = Boolean <=> named({"bool"})
            /\ Result = Float <=> named({"f32", "f64"})
            /\ named({"String"}) => Result = Varchar(255)

C10_Witness ==
    /\ Built("map_rust_type_to_sql")
    /\ arg = [kind |-> "Reference"]
    /\ Result = Varchar(255)

\* C11: parse_sql_type is total: for every text, those whose first ')' comes
\* before or right after the first '(' among them, it returns a DataType or an
\* error value and never aborts (no out-of-range slice of the text between the
\* parentheses).
C11_ParseTotal ==
    Built("parse_sql_type") => Result.res \in {"Ok", "Err"}

=============================================================================
